---------------------------- MODULE Spec2Model ----------------------------
(***************************************************************************)
(* A model of the TeleWaves service (src/telewaves/service.py): the        *)
(* extension and chat filters, the filename sanitizer and collision        *)
(* resolver, the per-message processor and the service runtime.            *)
(*                                                                         *)
(* Python strings are sequences of one-character strings, so that          *)
(* str.lower(), Path.suffix, Path.stem, str.replace() and str.strip() are  *)
(* computed character by character.  A Python value that may be a str, an  *)
(* int or None is a record [t, s, n] tagged by t.                          *)
(***************************************************************************)
EXTENDS Integers, Sequences, FiniteSets, TLC

(***************************************************************************)
(* Python values                                                           *)
(***************************************************************************)
NoneV == [t |-> "none", s |-> <<>>, n |-> 0]

StrV(s) == [t |-> "str", s |-> s, n |-> 0]

IntV(n) == [t |-> "int", s |-> <<>>, n |-> n]

\* Python truthiness of a value: None, "" and 0 are falsy.
Truthy(v) ==
    CASE v.t = "none" -> FALSE
      [] v.t = "str"  -> v.s # <<>>
      [] v.t = "int"  -> v.n # 0

(***************************************************************************)
(* str operations                                                          *)
(***************************************************************************)
UpperChars == <<"A", "B", "C", "D", "E", "F", "G", "H", "I", "J", "K", "L", "M", "N", "O", "P", "Q", "R", "S", "T", "U", "V", "W", "X", "Y", "Z">>

LowerChars == <<"a", "b", "c", "d", "e", "f", "g", "h", "i", "j", "k", "l", "m", "n", "o", "p", "q", "r", "s", "t", "u", "v", "w", "x", "y", "z">>

LowerChar(c) ==
    IF \E k \in DOMAIN UpperChars : UpperChars[k] = c
    THEN LowerChars[CHOOSE k \in DOMAIN UpperChars : UpperChars[k] = c]
    ELSE c

\* str.lower()
Lower(s) == [i \in 1..Len(s) |-> LowerChar(s[i])]

DigitChars == <<"0", "1", "2", "3", "4", "5", "6", "7", "8", "9">>

RECURSIVE NatStr(_)
NatStr(n) ==
    IF n < 10 THEN <<DigitChars[n + 1]>>
    ELSE NatStr(n \div 10) \o <<DigitChars[(n % 10) + 1]>>

\* str(int)
IntStr(n) == IF n < 0 THEN <<"-">> \o NatStr(0 - n) ELSE NatStr(n)

\* str.rfind(c): the last index of c (1-based), 0 when absent
RFind(s, c) ==
    IF \E i \in 1..Len(s) : s[i] = c
    THEN CHOOSE i \in 1..Len(s) : s[i] = c /\ \A j \in (i + 1)..Len(s) : s[j] # c
    ELSE 0

(***************************************************************************)
(* pathlib                                                                 *)
(***************************************************************************)
\* Path(p).name: the last component of p (trailing separators dropped)
RECURSIVE PathName(_)
PathName(p) ==
    IF p = <<>> THEN <<>>
    ELSE IF p[Len(p)] = "/" THEN PathName(SubSeq(p, 1, Len(p) - 1))
    ELSE SubSeq(p, RFind(p, "/") + 1, Len(p))

\* Path(p).suffix: from the last dot of the name, unless that dot is the
\* first or the last character of the name
PathSuffix(p) ==
    LET name == PathName(p)
        i    == RFind(name, ".")
    IN  IF 1 < i /\ i < Len(name) THEN SubSeq(name, i, Len(name)) ELSE <<>>

\* Path(p).stem
PathStem(p) ==
    LET name == PathName(p)
        i    == RFind(name, ".")
    IN  IF 1 < i /\ i < Len(name) THEN SubSeq(name, 1, i - 1) ELSE name

(***************************************************************************)
(* constants.py                                                            *)
(***************************************************************************)
PresetNames == {<<"a", "u", "d", "i", "o">>, <<"v", "i", "d", "e", "o">>, <<"i", "m", "a", "g", "e">>, <<"d", "o", "c", "u", "m", "e", "n", "t">>, <<"a", "r", "c", "h", "i", "v", "e">>}

EXTENSION_PRESETS(name) ==
    CASE name = <<"a", "u", "d", "i", "o">> ->
           {<<".", "m", "p", "3">>, <<".", "f", "l", "a", "c">>, <<".", "m", "4", "a">>, <<".", "o", "g", "g">>, <<".", "w", "a", "v">>, <<".", "a", "a", "c">>, <<".", "w", "m", "a">>, <<".", "a", "i", "f", "f">>, <<".", "a", "p", "e">>}
      [] name = <<"v", "i", "d", "e", "o">> ->
           {<<".", "m", "p", "4">>, <<".", "a", "v", "i">>, <<".", "m", "k", "v">>, <<".", "m", "o", "v">>, <<".", "w", "m", "v">>, <<".", "f", "l", "v">>, <<".", "w", "e", "b", "m">>, <<".", "m", "4", "v">>}
      [] name = <<"i", "m", "a", "g", "e">> ->
           {<<".", "j", "p", "g">>, <<".", "j", "p", "e", "g">>, <<".", "p", "n", "g">>, <<".", "g", "i", "f">>, <<".", "b", "m", "p">>, <<".", "t", "i", "f", "f">>, <<".", "w", "e", "b", "p">>, <<".", "s", "v", "g">>}
      [] name = <<"d", "o", "c", "u", "m", "e", "n", "t">> ->
           {<<".", "p", "d", "f">>, <<".", "d", "o", "c">>, <<".", "d", "o", "c", "x">>, <<".", "t", "x", "t">>, <<".", "r", "t", "f">>, <<".", "o", "d", "t">>, <<".", "p", "a", "g", "e", "s">>}
      [] name = <<"a", "r", "c", "h", "i", "v", "e">> ->
           {<<".", "z", "i", "p">>, <<".", "r", "a", "r">>, <<".", "7", "z">>, <<".", "t", "a", "r">>, <<".", "g", "z">>, <<".", "b", "z", "2">>, <<".", "x", "z">>}
      [] OTHER -> {}

(***************************************************************************)
(* TeleWaves.__init__: the extension filter                                *)
(***************************************************************************)
\* a resolver that also keeps the token of a preset
ResolveExtensionsKeepingTokens(extensions_filter) ==
    extensions_filter \cup UNION {EXTENSION_PRESETS(ext) : ext \in extensions_filter}

\* for ext in extensions_filter: a preset name adds its extensions, any
\* other token is added as it is
ResolveExtensions(extensions_filter) ==
    UNION {IF EXTENSION_PRESETS(ext) # {} THEN EXTENSION_PRESETS(ext) ELSE {ext} :
           ext \in extensions_filter}

(***************************************************************************)
(* TeleWaves._should_process_chat, _user_info, _should_download_file       *)
(***************************************************************************)
\* _user_info(user): None for no user, "@" + username when the user has a
\* non-empty username, else user.id (an int)
UserInfo(user) ==
    IF ~user.present THEN NoneV
    ELSE IF Truthy(user.username) THEN StrV(<<"@">> \o user.username.s)
    ELSE IntV(user.id)

\* _should_process_chat(chat_id, user_info): "accept" (True), "reject"
\* (False) or "raise" (AttributeError: an int has no lower())
ShouldProcessChat(chat_filter, chat_id, user_info) ==
    IF chat_filter = {} THEN "accept"
    ELSE IF IntStr(chat_id) \in chat_filter THEN "accept"
    ELSE IF Truthy(user_info)
         THEN IF user_info.t # "str" THEN "raise"
              ELSE IF Lower(user_info.s) \in chat_filter
                      \/ (<<"@">> \o Lower(Lower(user_info.s))) \in chat_filter
                   THEN "accept"
                   ELSE "reject"
         ELSE "reject"

\* _should_download_file(file_path)
ShouldDownloadFile(allowed, file_path) ==
    IF allowed = {} THEN TRUE
    ELSE Lower(PathSuffix(file_path)) \in allowed


(***************************************************************************)
(* TeleWaves.sanitize_filename                                             *)
(***************************************************************************)
InvalidChars == {"<", ">", ":", "\"", "/", "\\", "|", "?", "*"}

StripChars == {" ", "."}

\* str.strip(" ."): drop leading and trailing spaces and dots
RECURSIVE Strip(_)
Strip(s) ==
    IF s = <<>> THEN s
    ELSE IF s[1] \in StripChars THEN Strip(Tail(s))
    ELSE IF s[Len(s)] \in StripChars THEN Strip(SubSeq(s, 1, Len(s) - 1))
    ELSE s

sanitize_filename(filename) ==
    LET replaced == [i \in 1..Len(filename) |->
                        IF filename[i] \in InvalidChars THEN "_" ELSE filename[i]]
        stripped == Strip(replaced)
    IN  IF stripped = <<>> THEN <<"u", "n", "t", "i", "t", "l", "e", "d">> ELSE stripped

(***************************************************************************)
(* TeleWaves.download_media_file: the collision resolver                   *)
(***************************************************************************)
\* while file_path.exists(): file_path = f"{stem}_{counter}{suffix}"; counter += 1
\* `existing' is the set of names in the download directory.
RECURSIVE ResolveLoop(_, _, _, _)
ResolveLoop(existing, original_path, file_path, counter) ==
    IF file_path \in existing
    THEN ResolveLoop(existing, original_path,
                     PathStem(original_path) \o <<"_">> \o NatStr(counter)
                        \o PathSuffix(original_path),
                     counter + 1)
    ELSE file_path

\* a resolver that numbers the copies from 0
ResolvePathFromZero(existing, safe_filename) ==
    ResolveLoop(existing, safe_filename, safe_filename, 0)

\* file_path = download_dir / safe_filename; counter = 1; the loop
ResolvePath(existing, safe_filename) ==
    ResolveLoop(existing, safe_filename, safe_filename, 1)

(***************************************************************************)
(* TeleWaves.process_message: the filename of a document                   *)
(***************************************************************************)
\* mime_to_ext.get(mime_type, "")
MimeToExt(mime) ==
    CASE mime = <<"a", "u", "d", "i", "o", "/", "m", "p", "e", "g">> -> <<".", "m", "p", "3">>
      [] mime = <<"a", "u", "d", "i", "o", "/", "m", "p", "4">>  -> <<".", "m", "4", "a">>
      [] mime = <<"a", "u", "d", "i", "o", "/", "f", "l", "a", "c">> -> <<".", "f", "l", "a", "c">>
      [] mime = <<"a", "u", "d", "i", "o", "/", "o", "g", "g">>  -> <<".", "o", "g", "g">>
      [] mime = <<"a", "u", "d", "i", "o", "/", "w", "a", "v">>  -> <<".", "w", "a", "v">>
      [] mime = <<"v", "i", "d", "e", "o", "/", "m", "p", "4">>  -> <<".", "m", "p", "4">>
      [] OTHER -> <<>>

\* next((attr.file_name for attr in attributes if ... attr.file_name), None):
\* attributes is the sequence of the attributes' file_name values, NoneV for
\* an attribute that has none
RECURSIVE FirstFileName(_)
FirstFileName(attributes) ==
    IF attributes = <<>> THEN NoneV
    ELSE IF Truthy(Head(attributes)) THEN Head(attributes)
    ELSE FirstFileName(Tail(attributes))

\* the filename process_message derives for a document
DocumentFilename(document) ==
    LET declared == FirstFileName(document.attributes)
    IN  IF Truthy(declared) THEN declared.s
        ELSE <<"d", "o", "c", "u", "m", "e", "n", "t", "_">> \o IntStr(document.id)
               \o (IF Truthy(document.mime_type)
                   THEN MimeToExt(document.mime_type.s) ELSE <<>>)


(***************************************************************************)
(* Inputs: the users, the messages, the constructor's arguments and the    *)
(* download directory the service starts with                              *)
(***************************************************************************)
NoUser == [present |-> FALSE, username |-> NoneV, id |-> 0]

\* a user with the handle "Alice"
Alice == [present |-> TRUE, username |-> StrV(<<"A", "l", "i", "c", "e">>), id |-> 7]

\* a user with a numeric id and no handle
Anon == [present |-> TRUE, username |-> NoneV, id |-> 555]

NoDocument == [attributes |-> <<>>, mime_type |-> NoneV, id |-> 0]

Doc(attributes, mime_type, id) ==
    [attributes |-> attributes, mime_type |-> mime_type, id |-> id]

Msg(media, chat_id, sender, document) ==
    [media |-> media, chat_id |-> chat_id, sender |-> sender, document |-> document]

\* media is "none" (a text message), "document" (MessageMediaDocument) or
\* "photo" (any other media)
Messages ==
    { Msg("document", 7, Alice, Doc(<<NoneV, StrV(<<"t", "r", "a", "c", "k", ".", "m", "p", "3">>)>>, StrV(<<"a", "u", "d", "i", "o", "/", "m", "p", "e", "g">>), 1)),
      Msg("document", 555, Anon, Doc(<<StrV(<<"s", "o", "n", "g", ".", "M", "P", "3">>)>>, StrV(<<"a", "u", "d", "i", "o", "/", "m", "p", "e", "g">>), 3)),
      Msg("document", 0 - 1001, NoUser, Doc(<<NoneV>>, StrV(<<"a", "u", "d", "i", "o", "/", "f", "l", "a", "c">>), 9)),
      Msg("document", 7, Alice, Doc(<<StrV(<<>>), StrV(<<" ", "a", "/", "b", "?", ".", "t", "x", "t">>)>>, NoneV, 4)),
      Msg("photo", 7, Alice, NoDocument),
      Msg("none", 7, Alice, NoDocument) }

ChatFilters == { {}, {<<"@", "a", "l", "i", "c", "e">>}, {<<"5", "5", "5">>}, {<<"a", "l", "i", "c", "e">>, <<"-", "1", "0", "0", "1">>} }

ExtensionFilters == { {}, {<<"a", "u", "d", "i", "o">>}, {<<".", "M", "P", "3">>}, {<<"a", "u", "d", "i", "o">>, <<".", "t", "x", "t">>}, {<<"v", "i", "d", "e", "o">>, <<"m", "u", "s", "i", "c">>} }

InitialDirectories == { {}, {<<"t", "r", "a", "c", "k", ".", "m", "p", "3">>} }

\* the logged-in user get_me returns: its username and last_name
Me(username, last_name) ==
    [present |-> TRUE, username |-> username, last_name |-> last_name]

NoMe == [present |-> FALSE, username |-> NoneV, last_name |-> NoneV]

\* one with a username and no last name, one with a last name and no username
MeUsers == { Me(StrV(<<"b", "o", "b">>), NoneV), Me(NoneV, StrV(<<"R", "a", "y">>)) }

\* what an awaited call of the client does: it returns, or raises EOFError
\* or another Exception
CallOutcomes == {"ok", "EOFError", "Exception"}

\* what download_media does: it raises, returns None, saves at the path it
\* was given (replacing a file of that name), or saves under a name it
\* changed, which then names no existing file
TransferOutcomes == {"raise", "none", "saved", "renamed"}

\* the suffix the client appends when it changes the name
RenameSuffix == <<".", "b", "i", "n">>

\* the most invocations of the handler in one run
MaxInvocations == 2

(***************************************************************************)
(* State                                                                   *)
(***************************************************************************)
VARIABLES
    chat_filter,         \* self.chat_filter
    extensions_filter,   \* the extensions_filter the constructor was given
    allowed_extensions,  \* self.allowed_extensions
    files,               \* the download directory: name |-> the invocation
                         \* that wrote it (0: there before the run)
    runPc,               \* where run() is
    me,                  \* the user get_me returned (NoMe before that)
    registered,          \* whether the new-message handler is registered
    disconnected,        \* whether client.disconnect() was called
    inv                  \* the invocations of process_message, in order

vars == <<chat_filter, extensions_filter, allowed_extensions, files, runPc, me, registered,
          disconnected, inv>>

Init ==
    /\ chat_filter \in ChatFilters
    /\ extensions_filter \in ExtensionFilters
    /\ allowed_extensions = ResolveExtensions(extensions_filter)
    /\ \E d \in InitialDirectories : files = [f \in d |-> 0]
    /\ runPc = "start"
    /\ me = NoMe
    /\ registered = FALSE
    /\ disconnected = FALSE
    /\ inv = <<>>


(***************************************************************************)
(* TeleWaves.run                                                           *)
(***************************************************************************)
\* where run() ends after an awaited call raised exc ("ok": the try body
\* ended): EOFError is logged and swallowed, any other Exception re-raised
RunExitPc(exc) == IF exc = "Exception" THEN "raised" ELSE "returned"

\* a run() that disconnects only at the end of the try body
DisconnectAfterBodyOnly(exc) == exc = "ok"

\* finally: await self.client.disconnect(), whatever ended the try body
DisconnectOnExit(exc) == TRUE

\* the except clauses and the finally clause
RunExit(exc) ==
    /\ runPc' = RunExitPc(exc)
    /\ disconnected' = DisconnectOnExit(exc)

\* the log line after get_me: me.last_name or '' takes a missing last
\* name, '@' + me.username is a TypeError when the user has no username
LoggedInLine(user) == IF user.username.t = "str" THEN "ok" ELSE "Exception"

\* await self.client.start()
Start(outcome) ==
    /\ runPc = "start"
    /\ IF outcome = "ok"
       THEN runPc' = "get_me" /\ UNCHANGED disconnected
       ELSE RunExit(outcome)
    /\ UNCHANGED <<chat_filter, extensions_filter, allowed_extensions, files, me, registered, inv>>

\* me = await self.client.get_me(); the log line; @self.client.on(...);
\* up to the call of run_until_disconnected
GetMe(outcome, user) ==
    /\ runPc = "get_me"
    /\ IF outcome = "ok"
       THEN /\ me' = user
            /\ IF LoggedInLine(user) = "ok"
               THEN /\ registered' = TRUE
                    /\ runPc' = "running"
                    /\ UNCHANGED disconnected
               ELSE /\ RunExit(LoggedInLine(user))
                    /\ UNCHANGED registered
       ELSE /\ RunExit(outcome)
            /\ UNCHANGED <<me, registered>>
    /\ UNCHANGED <<chat_filter, extensions_filter, allowed_extensions, files, inv>>

\* await self.client.run_until_disconnected() returns or raises
RunUntilDisconnected(outcome) ==
    /\ runPc = "running"
    /\ RunExit(outcome)
    /\ UNCHANGED <<chat_filter, extensions_filter, allowed_extensions, files, me, registered, inv>>

(***************************************************************************)
(* TeleWaves.process_message                                               *)
(***************************************************************************)
\* an invocation: pc is "get_sender" or "download" (suspended in that
\* await), "returned" or "raised"
NewInvocation(message, pc) ==
    [message |-> message, pc |-> pc, chat |-> "n/a", ext |-> "n/a",
     filename |-> <<>>, target |-> <<>>, outcome |-> "n/a", saved |-> NoneV]

\* if not message or not message.media: return
EntryPc(message) == IF message.media = "none" THEN "returned" ELSE "get_sender"

\* a processor that skips the extension filter before the download
FilterWithoutExtensionCheck(cf, allowed, message) ==
    LET chat == ShouldProcessChat(cf, message.chat_id, UserInfo(message.sender))
        name == DocumentFilename(message.document)
    IN  IF chat # "accept"
        THEN [pc |-> IF chat = "raise" THEN "raised" ELSE "returned",
              chat |-> chat, ext |-> "n/a", filename |-> <<>>]
        ELSE IF message.media # "document"
        THEN [pc |-> "returned", chat |-> chat, ext |-> "n/a", filename |-> <<>>]
        ELSE [pc |-> "download", chat |-> chat, ext |-> "accept", filename |-> name]

\* from the return of get_sender to the call of download_media_file: the
\* chat filter, the media kind, the filename and the extension filter
Filter(cf, allowed, message) ==
    LET chat == ShouldProcessChat(cf, message.chat_id, UserInfo(message.sender))
        name == DocumentFilename(message.document)
    IN  IF chat # "accept"
        THEN [pc |-> IF chat = "raise" THEN "raised" ELSE "returned",
              chat |-> chat, ext |-> "n/a", filename |-> <<>>]
        ELSE IF message.media # "document"
        THEN [pc |-> "returned", chat |-> chat, ext |-> "n/a", filename |-> <<>>]
        ELSE IF ~ShouldDownloadFile(allowed, name)
        THEN [pc |-> "returned", chat |-> chat, ext |-> "reject", filename |-> name]
        ELSE [pc |-> "download", chat |-> chat, ext |-> "accept", filename |-> name]

\* the path download_media saved at, for a target it was asked to write
SavedPath(outcome, target) ==
    IF outcome = "renamed" THEN target \o RenameSuffix ELSE target

\* a download_media_file that lets the exception of download_media through
\* an unguarded process_message
AfterTransferPcUnguarded(outcome) ==
    IF outcome = "raise" THEN "raised" ELSE "returned"

\* download_media_file catches every Exception of download_media and
\* returns None; process_message logs and returns
AfterTransferPc(outcome) == "returned"

\* what download_media_file returns
DownloadMediaFileValue(outcome, target) ==
    IF outcome \in {"saved", "renamed"} THEN StrV(SavedPath(outcome, target))
    ELSE NoneV

Remove(dir, name) == [f \in (DOMAIN dir) \ {name} |-> dir[f]]

Write(dir, name, i) == [f \in (DOMAIN dir) \cup {name} |-> IF f = name THEN i ELSE dir[f]]

\* a processor that keeps the file whatever its suffix
AfterDownloadKeepAll(dir, allowed, downloaded_path) == dir

\* if downloaded_path and downloaded_path.exists(): the file is kept when
\* its suffix passes the extension filter and unlinked when it does not
AfterDownload(dir, allowed, downloaded_path) ==
    IF Truthy(downloaded_path) /\ downloaded_path.s \in DOMAIN dir
    THEN IF ShouldDownloadFile(allowed, downloaded_path.s)
         THEN dir
         ELSE Remove(dir, downloaded_path.s)
    ELSE dir

\* the client calls the handler for a new message: process_message runs to
\* its first await, get_sender, or returns for a message without media.
\* The handler is a coroutine that the client starts for each update; the
\* service holds no lock and does not ask the client for sequential
\* updates, so an invocation may start while another is suspended in an
\* await.
Deliver(message) ==
    /\ runPc = "running"
    /\ registered
    /\ Len(inv) < MaxInvocations
    /\ inv' = Append(inv, NewInvocation(message, EntryPc(message)))
    /\ UNCHANGED <<chat_filter, extensions_filter, allowed_extensions, files, runPc, me, registered,
                   disconnected>>

\* get_sender returns: process_message runs to its next await, the
\* download_media call inside download_media_file, or ends
SenderReturns(i) ==
    /\ runPc = "running"
    /\ i \in DOMAIN inv
    /\ inv[i].pc = "get_sender"
    /\ LET r == Filter(chat_filter, allowed_extensions, inv[i].message)
           target == IF r.pc = "download"
                     THEN ResolvePath(DOMAIN files, sanitize_filename(r.filename))
                     ELSE <<>>
       IN  inv' = [inv EXCEPT ![i] = [@ EXCEPT !.pc = r.pc, !.chat = r.chat,
                                                !.ext = r.ext,
                                                !.filename = r.filename,
                                                !.target = target]]
    /\ UNCHANGED <<chat_filter, extensions_filter, allowed_extensions, files, runPc, me, registered,
                   disconnected>>

\* download_media ends: download_media_file returns, process_message checks
\* the saved file and returns
TransferEnds(i, outcome) ==
    /\ runPc = "running"
    /\ i \in DOMAIN inv
    /\ inv[i].pc = "download"
    /\ outcome = "renamed" => SavedPath(outcome, inv[i].target) \notin DOMAIN files
    /\ LET downloaded_path == DownloadMediaFileValue(outcome, inv[i].target)
           written == IF Truthy(downloaded_path)
                      THEN Write(files, downloaded_path.s, i)
                      ELSE files
       IN  /\ files' = AfterDownload(written, allowed_extensions, downloaded_path)
           /\ inv' = [inv EXCEPT ![i] = [@ EXCEPT !.pc = AfterTransferPc(outcome),
                                                   !.outcome = outcome,
                                                   !.saved = downloaded_path]]
    /\ UNCHANGED <<chat_filter, extensions_filter, allowed_extensions, runPc, me, registered,
                   disconnected>>

Next ==
    \/ \E outcome \in CallOutcomes : Start(outcome)
    \/ \E outcome \in CallOutcomes, user \in MeUsers : GetMe(outcome, user)
    \/ \E outcome \in CallOutcomes : RunUntilDisconnected(outcome)
    \/ \E message \in Messages : Deliver(message)
    \/ \E i \in 1..MaxInvocations : SenderReturns(i)
    \/ \E i \in 1..MaxInvocations, outcome \in TransferOutcomes : TransferEnds(i, outcome)

Spec == Init /\ [][Next]_vars

(***************************************************************************)
(* Claims                                                                  *)
(***************************************************************************)
InFlight(i) == inv[i].pc \in {"get_sender", "download"}

\* invocation i ends its transfer in this step
TransferEndsFor(i) == inv[i].pc = "download" /\ inv'[i].pc # "download"

\* C1: a transfer never writes to a path that names an existing file: when
\* download_media saves a file, no file of that name was in the download
\* directory.
C1_NeverOverwrites ==
    [][\A i \in DOMAIN inv :
          (TransferEndsFor(i) /\ Truthy(inv'[i].saved))
             => inv'[i].saved.s \notin DOMAIN files]_vars

\* the chat filter decision as the specification states it
ClaimChatAccepts(S, message) ==
    \/ S = {}
    \/ IntStr(message.chat_id) \in S
    \/ /\ message.sender.present
       /\ Truthy(message.sender.username)
       /\ \/ Lower(message.sender.username.s) \in S
          \/ (<<"@">> \o Lower(message.sender.username.s)) \in S

\* C2: the chat filter decision of process_message is true iff the filter
\* is empty, or the chat id as a string is in it, or the sender's handle,
\* lowercased, is in it with or without a leading "@".
C2_ChatFilterDecision ==
    \A i \in DOMAIN inv :
        inv[i].chat # "n/a"
           => (inv[i].chat = "accept" <=> ClaimChatAccepts(chat_filter, inv[i].message))

\* the case of C3: a media message, a non-empty filter, a sender with a
\* numeric id and no handle, a chat id that is not in the filter
HandlelessAndFiltered(message) ==
    /\ chat_filter # {}
    /\ message.media # "none"
    /\ message.sender.present
    /\ ~Truthy(message.sender.username)
    /\ IntStr(message.chat_id) \notin chat_filter

\* C3: a media message of a sender without a handle whose chat id is not
\* in the non-empty filter is skipped: process_message returns without
\* raising, asks for no transfer and leaves the directory as it was.
C3_HandlelessSenderSkipped ==
    \A i \in DOMAIN inv :
        (HandlelessAndFiltered(inv[i].message) /\ inv[i].pc # "get_sender")
           => /\ inv[i].pc = "returned"
              /\ inv[i].target = <<>>
              /\ \A f \in DOMAIN files : files[f] # i

\* C4: at most one invocation of process_message is in progress.
C4_OneMessageAtATime ==
    \A i, j \in DOMAIN inv : (InFlight(i) /\ InFlight(j)) => i = j

\* C5: with a non-empty extension filter, once process_message has
\* returned, no file that invocation wrote with a suffix outside the
\* allowed set is left in the download directory.
C5_FilteredFileRemoved ==
    \A i \in DOMAIN inv :
        (allowed_extensions # {} /\ inv[i].pc = "returned")
           => \A f \in DOMAIN files :
                 files[f] = i => Lower(PathSuffix(f)) \in allowed_extensions

\* a transfer was saved under a suffix outside the non-empty allowed set
\* and process_message has returned
C5_Witness ==
    \E i \in DOMAIN inv :
        /\ allowed_extensions # {}
        /\ inv[i].pc = "returned"
        /\ Truthy(inv[i].saved)
        /\ Lower(PathSuffix(inv[i].saved.s)) \notin allowed_extensions
        /\ inv[i].saved.s \notin DOMAIN files

\* C6: when download_media raises or returns no path, process_message
\* returns without raising, and nothing else changes: the directory, the
\* run and every other invocation are as if the message had not come.
C6_FailedTransferContained ==
    [][\A i \in DOMAIN inv :
          (TransferEndsFor(i) /\ inv'[i].outcome \in {"raise", "none"})
             => /\ inv'[i].pc = "returned"
                /\ files' = files
                /\ runPc' = "running"
                /\ registered'
                /\ \A j \in DOMAIN inv : j # i => inv'[j] = inv[j]]_vars

\* a transfer raised, and a message delivered after it was downloaded
C6_Witness ==
    \E i, j \in DOMAIN inv :
        /\ i < j
        /\ inv[i].outcome = "raise"
        /\ inv[i].pc = "returned"
        /\ inv[j].outcome = "saved"
        /\ inv[j].pc = "returned"
        /\ inv[j].saved.s \in DOMAIN files

\* C7: however run ends, the client's disconnect was called.
C7_AlwaysDisconnects ==
    runPc \in {"returned", "raised"} => disconnected

\* run re-raised an exception, after disconnecting
C7_Witness == runPc = "raised" /\ disconnected /\ registered

\* the conditions under which process_message may ask for a transfer
Eligible(message) ==
    /\ message.media # "none"
    /\ ShouldProcessChat(chat_filter, message.chat_id, UserInfo(message.sender)) = "accept"
    /\ message.media = "document"
    /\ \/ allowed_extensions = {}
       \/ Lower(PathSuffix(DocumentFilename(message.document))) \in allowed_extensions

\* C8: a step of an invocation whose message has no media, is rejected by
\* the chat filter, is not a document or is rejected by the extension
\* filter asks for no transfer and leaves the download directory as it is.
C8_TransferOnlyWhenEligible ==
    [][\A i \in DOMAIN inv' :
          ((i \notin DOMAIN inv \/ inv'[i] # inv[i]) /\ ~Eligible(inv'[i].message))
             => /\ inv'[i].pc # "download"
                /\ inv'[i].target = <<>>
                /\ inv'[i].outcome = "n/a"
                /\ files' = files]_vars

\* one message was rejected by the extension filter, another is being
\* transferred
C8_Witness ==
    \E i, j \in DOMAIN inv :
        /\ inv[i].pc = "returned"
        /\ inv[i].ext = "reject"
        /\ inv[j].pc = "download"

\* S_N X
Numbered(name, N) == PathStem(name) \o <<"_">> \o NatStr(N) \o PathSuffix(name)

\* the target the specification states for a sanitized name
ClaimTarget(existing, name, target) ==
    /\ target \notin existing
    /\ name \notin existing => target = name
    /\ name \in existing
          => \E N \in 1..(Cardinality(existing) + 1) :
                /\ target = Numbered(name, N)
                /\ \A k \in 1..(N - 1) : Numbered(name, k) \in existing
    /\ (name = <<"t", "r", "a", "c", "k", ".", "m", "p", "3">> /\ name \in existing /\ <<"t", "r", "a", "c", "k", "_", "1", ".", "m", "p", "3">> \notin existing)
          => target = <<"t", "r", "a", "c", "k", "_", "1", ".", "m", "p", "3">>

\* C9: the target chosen for a sanitized name S+X is S+X when no such file
\* exists, else S_N+X for the smallest N >= 1 that names no existing file.
C9_SmallestFreeName ==
    [][\A i \in DOMAIN inv :
          (inv[i].pc = "get_sender" /\ inv'[i].pc = "download")
             => ClaimTarget(DOMAIN files, sanitize_filename(inv'[i].filename),
                            inv'[i].target)]_vars

\* a first download was kept as track.mp3 and the second one of the same
\* name is saved as track_1.mp3
C9_Witness ==
    \E i, j \in DOMAIN inv :
        /\ i < j
        /\ inv[i].saved = StrV(<<"t", "r", "a", "c", "k", ".", "m", "p", "3">>)
        /\ <<"t", "r", "a", "c", "k", ".", "m", "p", "3">> \in DOMAIN files
        /\ files[<<"t", "r", "a", "c", "k", ".", "m", "p", "3">>] = i
        /\ inv[j].filename = <<"t", "r", "a", "c", "k", ".", "m", "p", "3">>
        /\ inv[j].saved = StrV(<<"t", "r", "a", "c", "k", "_", "1", ".", "m", "p", "3">>)
        /\ <<"t", "r", "a", "c", "k", "_", "1", ".", "m", "p", "3">> \in DOMAIN files

\* the extension filter as the specification states it
ClaimExtensionAccepts(A, f) ==
    \/ A = {}
    \/ \E a \in A : Lower(a) = Lower(PathSuffix(f))

\* C10: the extension filter accepts a filename iff the allowed set is
\* empty or the filename's suffix equals a member of it, compared without
\* regard to case.
C10_ExtensionFilterDecision ==
    \A i \in DOMAIN inv :
        inv[i].ext # "n/a"
           => (inv[i].ext = "accept"
                 <=> ClaimExtensionAccepts(allowed_extensions, inv[i].filename))

C12_RegistersAfterLogin ==
    /\ me.present => (registered /\ runPc \in {"running", "returned", "raised"})
    /\ registered => runPc \notin {"start", "get_me"}

=============================================================================
